---- MODULE Spec2Model ----
(***************************************************************************)
(* ROA_ChronoPartyAI: the Blackboard, the per-actor Controller state       *)
(* machine and the Manager that drives them once per frame.                *)
(*                                                                         *)
(* The map is a corridor of tiles <<x, 0>>, 0 <= x <= MaxX, with the       *)
(* player (the party leader) standing at its origin; followers and enemy   *)
(* events move along it.  The code reads positions only through distTiles. *)
(***************************************************************************)
EXTENDS Integers, Sequences, FiniteSets, TLC

VARIABLES
  party,        \* $gameParty.members() as actor ids, leader first
  db,           \* actor id -> actorAiConfig(actor), read from the actor's note
  charPos,      \* actor id -> tile of the actor's follower character
  hp,           \* actor id -> HP percentage (0 = dead)
  events,       \* the enemy events $gameMap.events() currently holds
  evPos,        \* enemy event -> tile (an event keeps its tile when removed)
  evType,       \* enemy event -> its cached _roaEnemyType tag
  mgr,          \* Manager: [bb |-> id of its Blackboard, controllers |-> Map]
  boards,       \* Blackboard id -> Blackboard object
  think,        \* actor id -> what its controller did in the latest frame
  result        \* the value of the function a function-level specification applies

vars == <<party, db, charPos, hp, events, evPos, evType, mgr, boards, think, result>>

----------------------------------------------------------------------------
(* Bounds of the model                                                     *)

MaxFrame == 7           \* frames simulated on one map
MaxX == 4               \* the corridor's last tile
ThinkInterval == 1      \* CFG.thinkInterval, scaled down
EnemyScanInterval == 1  \* CFG.enemyScanInterval, scaled down
DefaultAggro == 2       \* CFG.defaultAggro, scaled down
BuffWindowFrames == 4   \* CFG.healerBuffWindowFrames, scaled down

(* Program constants                                                       *)
HealerHealThreshold == 70
HealerCriticalThreshold == 35
FarAway == 9999
NoRange == 999

MaxEvents == 3          \* enemy events a map can hold

Actors == 1..5
Events == 1..MaxEvents
Cells == {<<x, 0>> : x \in 0..MaxX}
HpLevels == {0, 30, 60, 100}
Null == <<>>
PlayerPos == <<0, 0>>
Current == 0             \* the Blackboard the Manager holds
Replaced == 1            \* the Blackboard the latest map change replaced
BoardIds == {Current, Replaced}

(* the value of a one-element set: Only({f(x) : x \in {e}}) is f(e) with   *)
(* e evaluated once                                                        *)
Only(S) == CHOOSE v \in S : TRUE

Abs(n) == IF n < 0 THEN -n ELSE n

(* enemyTypeFromEnemyDb: anything but RANGED is MELEE                      *)
enemyTypeFromEnemyDb(t) == IF t = "RANGED" THEN "RANGED" ELSE "MELEE"
EnemyType(e) == evType[e]

Roles == {"RANGED", "MELEE", "TANK", "HEALER"}

(* actorAiConfig: the record built from the notetags.  The radii are the   *)
(* notetag values of the modelled actors.                                  *)
actorAiConfig(enabled, role, stance) ==
  [enabled |-> enabled, role |-> IF role = "" THEN "MELEE" ELSE role,
   stance |-> stance, leash |-> 3, preferredRange |-> 1, keepDistance |-> 2,
   protectRadius |-> 1, toolAttack |-> 5, toolDefend |-> 0, toolHeal |-> 12,
   toolBuff |-> 13]

----------------------------------------------------------------------------
(* ChronoCompat                                                            *)

IndexOf(s, x) == IF \E i \in 1..Len(s) : s[i] = x
                 THEN CHOOSE i \in 1..Len(s) : s[i] = x /\ \A j \in 1..(i-1) : s[j] # x
                 ELSE 0

(* $gamePlayer.followers(): the follower characters the engine keeps       *)
FollowerSlots == 3

(* members.findIndex(...) is 0-based: the leader and a non-member give      *)
(* null, and so does a member beyond the last follower character            *)
characterForActorId(actorId, pos) ==
  IF IndexOf(party, actorId) <= 1 THEN Null
  ELSE IF IndexOf(party, actorId) - 1 > FollowerSlots THEN Null
  ELSE pos[actorId]

distTiles(a, b) ==
  IF a = Null \/ b = Null THEN FarAway
  ELSE Abs(a[1] - b[1]) + Abs(a[2] - b[2])

SortedSeq(S) ==
  LET RECURSIVE Build(_, _)
      Build(n, acc) == IF n > MaxEvents THEN acc
                       ELSE Build(n + 1, IF n \in S THEN Append(acc, n) ELSE acc)
  IN Build(1, <<>>)

enemyCharacters == SortedSeq(events)

Sign(n) == IF n > 0 THEN 1 ELSE IF n < 0 THEN -1 ELSE 0

(* char.moveTowardCharacter / moveAwayFromCharacter: one tile along the    *)
(* corridor when the tile is passable (ok), no move otherwise.             *)
StepToward(p, t, ok) ==
  LET q == <<p[1] + Sign(t[1] - p[1]), p[2]>>
  IN IF ok /\ q \in Cells THEN q ELSE p

StepAway(p, t, ok) ==
  LET q == <<p[1] - Sign(t[1] - p[1]), p[2]>>
  IN IF ok /\ q \in Cells THEN q ELSE p

(* A result threads the controller, the followers' tiles and the intents   *)
(* issued so far through one Controller.update.                            *)
Ch(r) == characterForActorId(r.c.actorId, r.pos)
ToPlayer == <<"player", 0>>
ToEnemy(e) == <<"enemy", e>>
ToActor(a) == <<"actor", a>>

moveToward(r, tpos, to) ==
  IF Ch(r) = Null \/ tpos = Null THEN r
  ELSE [r EXCEPT !.pos[r.c.actorId] = StepToward(@, tpos, r.ok),
                 !.out = Append(@, [kind |-> "moveToward", to |-> to])]

moveAway(r, tpos, to) ==
  IF Ch(r) = Null \/ tpos = Null THEN r
  ELSE [r EXCEPT !.pos[r.c.actorId] = StepAway(@, tpos, r.ok),
                 !.out = Append(@, [kind |-> "moveAway", to |-> to])]

(* sidestep: one perpendicular step, up/down or left/right by Math.random; *)
(* the corridor's walls block it, so only the intent remains.              *)
sidestep(r, tpos, to) ==
  IF Ch(r) = Null \/ tpos = Null THEN r
  ELSE [r EXCEPT !.out = Append(@, [kind |-> "sidestep", to |-> to])]

(* a tool use that triggers the tool a second time                         *)
tryUseToolTwice(r, toolId, commandType) ==
  IF Ch(r) = Null \/ toolId = 0 THEN r
  ELSE [r EXCEPT !.out = Append(Append(@, [kind |-> "tool", to |-> <<"tool", toolId>>]),
                                [kind |-> "tool", to |-> <<"tool", toolId>>])]

tryUseTool(r, toolId, commandType) ==
  IF Ch(r) = Null \/ toolId = 0 THEN r
  ELSE [r EXCEPT !.out = Append(@, [kind |-> "tool", to |-> <<"tool", toolId>>])]

----------------------------------------------------------------------------
(* Blackboard                                                              *)

NewBlackboard ==
  [frame |-> 0, enemyScanCd |-> 0, enemies |-> <<>>, combatActive |-> FALSE,
   combatStartFrame |-> 0]

(* a refresh that stamps the start frame whenever combat is active         *)
BlackboardUpdateLevel(B) ==
  LET frame == B.frame + 1
      scan == B.enemyScanCd <= 0
      enemies == IF scan THEN enemyCharacters ELSE B.enemies
      active == \E i \in 1..Len(enemies) :
                   distTiles(PlayerPos, evPos[enemies[i]]) <= DefaultAggro
  IN [frame |-> frame,
      enemyScanCd |-> IF scan THEN EnemyScanInterval ELSE B.enemyScanCd - 1,
      enemies |-> enemies,
      combatActive |-> active,
      combatStartFrame |-> IF active THEN frame ELSE B.combatStartFrame]

(* a refresh without the branch that ends combat                           *)
BlackboardUpdateLatched(B) ==
  LET frame == B.frame + 1
      scan == B.enemyScanCd <= 0
      enemies == IF scan THEN enemyCharacters ELSE B.enemies
      active == \E i \in 1..Len(enemies) :
                   distTiles(PlayerPos, evPos[enemies[i]]) <= DefaultAggro
      rising == active /\ ~B.combatActive
  IN [frame |-> frame,
      enemyScanCd |-> IF scan THEN EnemyScanInterval ELSE B.enemyScanCd - 1,
      enemies |-> enemies,
      combatActive |-> IF rising THEN TRUE ELSE B.combatActive,
      combatStartFrame |-> IF rising THEN frame ELSE B.combatStartFrame]

BlackboardUpdate(B) ==
  LET frame == B.frame + 1
      scan == B.enemyScanCd <= 0
      enemies == IF scan THEN enemyCharacters ELSE B.enemies
      active == \E i \in 1..Len(enemies) :
                   distTiles(PlayerPos, evPos[enemies[i]]) <= DefaultAggro
      rising == active /\ ~B.combatActive
  IN [frame |-> frame,
      enemyScanCd |-> IF scan THEN EnemyScanInterval ELSE B.enemyScanCd - 1,
      enemies |-> enemies,
      combatActive |-> IF rising THEN TRUE ELSE IF ~active THEN FALSE
                       ELSE B.combatActive,
      combatStartFrame |-> IF rising THEN frame ELSE B.combatStartFrame]

----------------------------------------------------------------------------
(* Controller                                                              *)

(* lastThink is history: the frame of the controller's latest think, 0     *)
(* before the first.                                                       *)
NewController(actorId, cfg, bbId, jitter) ==
  [actorId |-> actorId, cfg |-> cfg, bb |-> bbId,
   thinkCd |-> jitter, state |-> "FOLLOW", target |-> 0,
   buffedThisCombat |-> {}, buffQueue |-> <<>>, combatStartFrameSeen |-> 0,
   lastThink |-> 0]

role(c) == IF c.cfg.role \in Roles THEN c.cfg.role ELSE "MELEE"

(* Array.prototype.find: the first element passing the test, 0 for none    *)
Find(s, Test(_)) ==
  IF \E i \in 1..Len(s) : Test(s[i])
  THEN s[CHOOSE i \in 1..Len(s) : Test(s[i]) /\ \A j \in 1..(i-1) : ~Test(s[j])]
  ELSE 0

Filter(s, Test(_)) == SelectSeq(s, Test)

RestingState(c) == IF c.cfg.stance = "HOLD" THEN "HOLD" ELSE "FOLLOW"

(* a scan that lets a later enemy at the same distance win                 *)
nearestInPoolLast(ch, pool) ==
  LET RECURSIVE Scan(_, _, _)
      Scan(i, best, bestD) ==
        IF i > Len(pool) THEN best
        ELSE LET d == distTiles(ch, evPos[pool[i]])
             IN IF d <= bestD THEN Scan(i + 1, pool[i], d)
                ELSE Scan(i + 1, best, bestD)
  IN Scan(1, 0, FarAway)

nearestInPool(ch, pool) ==
  LET RECURSIVE Scan(_, _, _)
      Scan(i, best, bestD) ==
        IF i > Len(pool) THEN best
        ELSE LET d == distTiles(ch, evPos[pool[i]])
             IN IF d < bestD THEN Scan(i + 1, pool[i], d)
                ELSE Scan(i + 1, best, bestD)
  IN Scan(1, 0, FarAway)

pickTarget(ch, rl, enemies) ==
  LET IsRanged(e) == EnemyType(e) = "RANGED"
      ranged == Filter(enemies, IsRanged)
  IN IF Len(enemies) = 0 THEN 0
     ELSE IF rl = "RANGED"
          THEN nearestInPool(ch, IF Len(ranged) > 0 THEN ranged ELSE enemies)
          ELSE nearestInPool(ch, enemies)

thinkFollow(r, B) ==
  IF r.c.cfg.stance = "HOLD" THEN [r EXCEPT !.c.state = "HOLD"]
  ELSE IF B.combatActive THEN [r EXCEPT !.c.state = "ACQUIRE"]
  ELSE IF distTiles(Ch(r), PlayerPos) > 2 THEN moveToward(r, PlayerPos, ToPlayer)
  ELSE r

thinkHold(r, B) ==
  LET IsClose(e) == distTiles(Ch(r), evPos[e]) <= 3
      close == Find(B.enemies, IsClose)
  IN IF close # 0 THEN [r EXCEPT !.c.target = close, !.c.state = "ACT"] ELSE r

thinkRecover(r, B) ==
  LET r1 == moveToward(r, PlayerPos, ToPlayer)
  IN IF distTiles(Ch(r1), PlayerPos) <= 3
     THEN [r1 EXCEPT !.c.state = RestingState(r.c)]
     ELSE r1

thinkAcquire(r, B) ==
  LET t == pickTarget(Ch(r), role(r.c), B.enemies)
  IN IF role(r.c) = "HEALER" THEN [r EXCEPT !.c.state = "ACT"]
     ELSE IF t = 0 THEN [r EXCEPT !.c.state = RestingState(r.c)]
     ELSE [r EXCEPT !.c.target = t, !.c.state = "ACT"]

(* a ranged action that closes in before it thinks of kiting              *)
actRangedApproachFirst(r, B) ==
  LET t == IF r.c.target # 0 THEN r.c.target
           ELSE pickTarget(Ch(r), "RANGED", B.enemies)
      d == distTiles(Ch(r), evPos[t])
      r1 == IF d > r.c.cfg.preferredRange
            THEN moveToward(r, evPos[t], ToEnemy(t))
            ELSE IF EnemyType(t) = "MELEE" /\ d <= r.c.cfg.keepDistance
                 THEN sidestep(moveAway(r, evPos[t], ToEnemy(t)), evPos[t], ToEnemy(t))
                 ELSE r
      r2 == IF r.c.cfg.toolAttack > 0 THEN tryUseTool(r1, r.c.cfg.toolAttack, 0)
            ELSE r1
  IN IF t = 0 THEN [r EXCEPT !.c.state = "FOLLOW"]
     ELSE [r2 EXCEPT !.c.state = "ACQUIRE", !.tgt = t]

actRanged(r, B) ==
  LET t == IF r.c.target # 0 THEN r.c.target
           ELSE pickTarget(Ch(r), "RANGED", B.enemies)
      d == distTiles(Ch(r), evPos[t])
      r1 == IF EnemyType(t) = "MELEE" /\ d <= r.c.cfg.keepDistance
            THEN sidestep(moveAway(r, evPos[t], ToEnemy(t)), evPos[t], ToEnemy(t))
            ELSE IF d > r.c.cfg.preferredRange
                 THEN moveToward(r, evPos[t], ToEnemy(t))
                 ELSE r
      r2 == IF r.c.cfg.toolAttack > 0 THEN tryUseTool(r1, r.c.cfg.toolAttack, 0)
            ELSE r1
  IN IF t = 0 THEN [r EXCEPT !.c.state = "FOLLOW"]
     ELSE [r2 EXCEPT !.c.state = "ACQUIRE", !.tgt = t]

(* a melee agent that stays in ACT after it has acted                      *)
actMeleeStaysInAct(r, B) ==
  LET t == IF r.c.target # 0 THEN r.c.target
           ELSE pickTarget(Ch(r), "MELEE", B.enemies)
      r1 == moveToward(r, evPos[t], ToEnemy(t))
      r2 == IF r.c.cfg.toolAttack > 0 THEN tryUseTool(r1, r.c.cfg.toolAttack, 0)
            ELSE r1
  IN IF t = 0 THEN [r EXCEPT !.c.state = "FOLLOW"]
     ELSE [r2 EXCEPT !.c.state = "ACT", !.tgt = t]

actMelee(r, B) ==
  LET t == IF r.c.target # 0 THEN r.c.target
           ELSE pickTarget(Ch(r), "MELEE", B.enemies)
      r1 == moveToward(r, evPos[t], ToEnemy(t))
      r2 == IF r.c.cfg.toolAttack > 0 THEN tryUseTool(r1, r.c.cfg.toolAttack, 0)
            ELSE r1
  IN IF t = 0 THEN [r EXCEPT !.c.state = "FOLLOW"]
     ELSE [r2 EXCEPT !.c.state = "ACQUIRE", !.tgt = t]

(* partyActorIds filtered to the actors whose note says RANGED or HEALER   *)
protectedActorIds ==
  LET IsProtected(id) == db[id].role = "RANGED" \/ db[id].role = "HEALER"
  IN Filter(party, IsProtected)

(* the nearest resolvable protected ally: its actor id, 0 for none         *)
protectedChar(ch, pos) ==
  LET ids == protectedActorIds
      RECURSIVE Scan(_, _, _)
      Scan(i, best, bestD) ==
        IF i > Len(ids) THEN best
        ELSE LET pc == characterForActorId(ids[i], pos)
                 d == distTiles(ch, pc)
             IN IF pc # Null /\ d < bestD THEN Scan(i + 1, ids[i], d)
                ELSE Scan(i + 1, best, bestD)
  IN Scan(1, 0, FarAway)

(* a tank that measures the protect radius from itself                     *)
tankTargetOwnRadius(r, B) ==
  LET pa == protectedChar(Ch(r), r.pos)
      Threatens(e) == distTiles(Ch(r), evPos[e]) <= r.c.cfg.protectRadius
      peel == IF pa # 0 THEN Find(B.enemies, Threatens) ELSE 0
  IN IF peel # 0 THEN peel ELSE pickTarget(Ch(r), "TANK", B.enemies)

tankTarget(r, B) ==
  LET pa == protectedChar(Ch(r), r.pos)
      Threatens(e) == distTiles(r.pos[pa], evPos[e]) <= r.c.cfg.protectRadius
      peel == IF pa # 0 THEN Find(B.enemies, Threatens) ELSE 0
  IN IF peel # 0 THEN peel ELSE pickTarget(Ch(r), "TANK", B.enemies)

actTank(r, B) ==
  LET t == tankTarget(r, B)
      r1 == moveToward(r, evPos[t], ToEnemy(t))
      r2 == IF r.c.cfg.toolAttack > 0 THEN tryUseTool(r1, r.c.cfg.toolAttack, 0)
            ELSE r1
  IN IF t = 0 THEN [r EXCEPT !.c.state = "FOLLOW"]
     ELSE [r2 EXCEPT !.c.state = "ACQUIRE", !.tgt = t]

(* Healer script                                                           *)

(* a scan that does not skip the dead                                      *)
lowestHpAllyCountingDead ==
  LET RECURSIVE Scan(_, _)
      Scan(i, best) ==
        IF i > Len(party) THEN best
        ELSE IF best.actorId = 0 \/ hp[party[i]] < best.hpPct
             THEN Scan(i + 1, [actorId |-> party[i], hpPct |-> hp[party[i]]])
             ELSE Scan(i + 1, best)
  IN Scan(1, [actorId |-> 0, hpPct |-> NoRange])

lowestHpAlly ==
  LET RECURSIVE Scan(_, _)
      Scan(i, best) ==
        IF i > Len(party) THEN best
        ELSE IF hp[party[i]] = 0 THEN Scan(i + 1, best)
        ELSE IF best.actorId = 0 \/ hp[party[i]] < best.hpPct
             THEN Scan(i + 1, [actorId |-> party[i], hpPct |-> hp[party[i]]])
             ELSE Scan(i + 1, best)
  IN Scan(1, [actorId |-> 0, hpPct |-> NoRange])

buildHealerBuffQueue ==
  LET leaderId == IF Len(party) > 0 THEN party[1] ELSE 0
      IsHealer(id) == db[id].role = "HEALER"
      IsMelee(id) == ~IsHealer(id) /\ db[id].role \in {"TANK", "MELEE"}
      IsRanged(id) == ~IsHealer(id) /\ ~IsMelee(id)
      NotLeader(id) == id # leaderId
  IN (IF leaderId # 0 THEN <<leaderId>> ELSE <<>>)
       \o Filter(Filter(party, IsMelee), NotLeader)
       \o Filter(Filter(party, IsRanged), NotLeader)
       \o Filter(Filter(party, IsHealer), NotLeader)

doHealerHeal(r, targetActorId) ==
  LET targetChar == characterForActorId(targetActorId, r.pos)
      d == IF targetChar # Null THEN distTiles(Ch(r), targetChar) ELSE NoRange
  IN IF r.c.cfg.toolHeal = 0 /\ r.c.cfg.toolAttack = 0 THEN r
     ELSE IF Ch(r) = Null THEN r
     ELSE IF targetChar # Null /\ d > r.c.cfg.preferredRange
          THEN moveToward(r, targetChar, ToActor(targetActorId))
     ELSE IF r.c.cfg.toolHeal > 0 THEN tryUseTool(r, r.c.cfg.toolHeal, 1)
     ELSE r

(* a buff that does not record the ally it buffed                          *)
doHealerBuffNoMark(r, targetActorId) ==
  LET targetChar == characterForActorId(targetActorId, r.pos)
      d == IF targetChar # Null THEN distTiles(Ch(r), targetChar) ELSE NoRange
  IN IF r.c.cfg.toolBuff = 0 THEN r
     ELSE IF Ch(r) = Null THEN r
     ELSE IF targetChar # Null /\ d > r.c.cfg.preferredRange
          THEN moveToward(r, targetChar, ToActor(targetActorId))
     ELSE tryUseTool(r, r.c.cfg.toolBuff, 1)

doHealerBuff(r, targetActorId) ==
  LET targetChar == characterForActorId(targetActorId, r.pos)
      d == IF targetChar # Null THEN distTiles(Ch(r), targetChar) ELSE NoRange
  IN IF r.c.cfg.toolBuff = 0 THEN r
     ELSE IF Ch(r) = Null THEN r
     ELSE IF targetChar # Null /\ d > r.c.cfg.preferredRange
          THEN moveToward(r, targetChar, ToActor(targetActorId))
     ELSE [tryUseTool(r, r.c.cfg.toolBuff, 1)
             EXCEPT !.c.buffedThisCombat = @ \cup {targetActorId}]

(* a combat window that is initialised at every ACT think of a healer      *)
healerCombatWindowEveryAct(c, B) ==
  IF B.combatActive
  THEN [c EXCEPT !.combatStartFrameSeen = B.combatStartFrame,
                 !.buffedThisCombat = {},
                 !.buffQueue = buildHealerBuffQueue]
  ELSE c

(* lines 657-662: the buff queue is initialised once per combat start      *)
healerCombatWindow(c, B) ==
  IF B.combatActive /\ c.combatStartFrameSeen # B.combatStartFrame
  THEN [c EXCEPT !.combatStartFrameSeen = B.combatStartFrame,
                 !.buffedThisCombat = {},
                 !.buffQueue = buildHealerBuffQueue]
  ELSE c

(* a healer that runs its buff rotation before it looks at HP            *)
actHealerBuffFirst(r0, B) ==
  LET r == [r0 EXCEPT !.c = healerCombatWindow(@, B),
                      !.built = B.combatActive
                                /\ r0.c.combatStartFrameSeen # B.combatStartFrame]
      lowest == lowestHpAlly
      NotBuffed(id) == id \notin r.c.buffedThisCombat
      next == Find(r.c.buffQueue, NotBuffed)
      withinWindow == (B.frame - B.combatStartFrame) <= BuffWindowFrames
      IsClose(e) == distTiles(Ch(r), evPos[e]) <= 2
      closeEnemy == Find(B.enemies, IsClose)
  IN IF Ch(r0) = Null THEN [r0 EXCEPT !.c.state = "FOLLOW"]
     ELSE IF B.combatActive /\ withinWindow /\ next # 0
     THEN [doHealerBuff(r, next)
             EXCEPT !.c.state = "ACT", !.decision = "BUFF", !.ally = next]
     ELSE IF lowest.actorId # 0 /\ lowest.hpPct <= HealerCriticalThreshold
     THEN [doHealerHeal(r, lowest.actorId)
             EXCEPT !.c.state = "ACT", !.decision = "HEAL", !.ally = lowest.actorId]
     ELSE IF lowest.actorId # 0 /\ lowest.hpPct <= HealerHealThreshold
     THEN [doHealerHeal(r, lowest.actorId)
             EXCEPT !.c.state = "ACT", !.decision = "HEAL", !.ally = lowest.actorId]
     ELSE IF closeEnemy # 0
     THEN [(IF r.c.cfg.toolDefend > 0 THEN tryUseTool(r, r.c.cfg.toolDefend, 0)
            ELSE IF r.c.cfg.toolAttack > 0 THEN tryUseTool(r, r.c.cfg.toolAttack, 0)
            ELSE moveAway(r, evPos[closeEnemy], ToEnemy(closeEnemy)))
             EXCEPT !.c.state = "ACT", !.decision = "DEFEND", !.tgt = closeEnemy]
     ELSE [(IF distTiles(Ch(r), PlayerPos) > 3
            THEN moveToward(r, PlayerPos, ToPlayer) ELSE r)
             EXCEPT !.c.state = "ACQUIRE", !.decision = "REPOSITION"]

(* a healer whose buff rotation has no time window                        *)
actHealerNoWindow(r0, B) ==
  LET r == [r0 EXCEPT !.c = healerCombatWindow(@, B),
                      !.built = B.combatActive
                                /\ r0.c.combatStartFrameSeen # B.combatStartFrame]
      lowest == lowestHpAlly
      NotBuffed(id) == id \notin r.c.buffedThisCombat
      next == Find(r.c.buffQueue, NotBuffed)
      withinWindow == TRUE
      IsClose(e) == distTiles(Ch(r), evPos[e]) <= 2
      closeEnemy == Find(B.enemies, IsClose)
  IN IF Ch(r0) = Null THEN [r0 EXCEPT !.c.state = "FOLLOW"]
     ELSE IF lowest.actorId # 0 /\ lowest.hpPct <= HealerCriticalThreshold
     THEN [doHealerHeal(r, lowest.actorId)
             EXCEPT !.c.state = "ACT", !.decision = "HEAL", !.ally = lowest.actorId]
     ELSE IF lowest.actorId # 0 /\ lowest.hpPct <= HealerHealThreshold
     THEN [doHealerHeal(r, lowest.actorId)
             EXCEPT !.c.state = "ACT", !.decision = "HEAL", !.ally = lowest.actorId]
     ELSE IF B.combatActive /\ withinWindow /\ next # 0
     THEN [doHealerBuff(r, next)
             EXCEPT !.c.state = "ACT", !.decision = "BUFF", !.ally = next]
     ELSE IF closeEnemy # 0
     THEN [(IF r.c.cfg.toolDefend > 0 THEN tryUseTool(r, r.c.cfg.toolDefend, 0)
            ELSE IF r.c.cfg.toolAttack > 0 THEN tryUseTool(r, r.c.cfg.toolAttack, 0)
            ELSE moveAway(r, evPos[closeEnemy], ToEnemy(closeEnemy)))
             EXCEPT !.c.state = "ACT", !.decision = "DEFEND", !.tgt = closeEnemy]
     ELSE [(IF distTiles(Ch(r), PlayerPos) > 3
            THEN moveToward(r, PlayerPos, ToPlayer) ELSE r)
             EXCEPT !.c.state = "ACQUIRE", !.decision = "REPOSITION"]

actHealer(r0, B) ==
  LET r == [r0 EXCEPT !.c = healerCombatWindow(@, B),
                      !.built = B.combatActive
                                /\ r0.c.combatStartFrameSeen # B.combatStartFrame]
      lowest == lowestHpAlly
      NotBuffed(id) == id \notin r.c.buffedThisCombat
      next == Find(r.c.buffQueue, NotBuffed)
      withinWindow == (B.frame - B.combatStartFrame) <= BuffWindowFrames
      IsClose(e) == distTiles(Ch(r), evPos[e]) <= 2
      closeEnemy == Find(B.enemies, IsClose)
  IN IF Ch(r0) = Null THEN [r0 EXCEPT !.c.state = "FOLLOW"]
     ELSE IF lowest.actorId # 0 /\ lowest.hpPct <= HealerCriticalThreshold
     THEN [doHealerHeal(r, lowest.actorId)
             EXCEPT !.c.state = "ACT", !.decision = "HEAL", !.ally = lowest.actorId]
     ELSE IF lowest.actorId # 0 /\ lowest.hpPct <= HealerHealThreshold
     THEN [doHealerHeal(r, lowest.actorId)
             EXCEPT !.c.state = "ACT", !.decision = "HEAL", !.ally = lowest.actorId]
     ELSE IF B.combatActive /\ withinWindow /\ next # 0
     THEN [doHealerBuff(r, next)
             EXCEPT !.c.state = "ACT", !.decision = "BUFF", !.ally = next]
     ELSE IF closeEnemy # 0
     THEN [(IF r.c.cfg.toolDefend > 0 THEN tryUseTool(r, r.c.cfg.toolDefend, 0)
            ELSE IF r.c.cfg.toolAttack > 0 THEN tryUseTool(r, r.c.cfg.toolAttack, 0)
            ELSE moveAway(r, evPos[closeEnemy], ToEnemy(closeEnemy)))
             EXCEPT !.c.state = "ACT", !.decision = "DEFEND", !.tgt = closeEnemy]
     ELSE [(IF distTiles(Ch(r), PlayerPos) > 3
            THEN moveToward(r, PlayerPos, ToPlayer) ELSE r)
             EXCEPT !.c.state = "ACQUIRE", !.decision = "REPOSITION"]

thinkAct(r, B) ==
  IF role(r.c) = "HEALER" THEN actHealer(r, B)
  ELSE IF role(r.c) = "RANGED" THEN actRanged(r, B)
  ELSE IF role(r.c) = "TANK" THEN actTank(r, B)
  ELSE actMelee(r, B)

(* What one Controller.update did, kept beside the controller it returns   *)
NoThink ==
  [thought |-> FALSE, prior |-> "NONE", evaluated |-> "NONE",
   out |-> <<>>, tgt |-> 0, decision |-> "NONE", ally |-> 0, built |-> FALSE,
   seen |-> Null]

Snapshot(B) == <<B.enemies, B.combatActive, B.combatStartFrame>>

Result(c, pos, ok) ==
  [c |-> c, pos |-> pos, ok |-> ok] @@ NoThink

(* a leash check that leaves an agent in combat alone                      *)
leashCheckOutOfCombat(c, ch) ==
  IF distTiles(ch, PlayerPos) > c.cfg.leash /\ c.state # "ACT"
  THEN [c EXCEPT !.state = "RECOVER", !.target = 0]
  ELSE c

(* lines 442-447: the leash check                                          *)
leashCheck(c, ch) ==
  IF distTiles(ch, PlayerPos) > c.cfg.leash
  THEN [c EXCEPT !.state = "RECOVER", !.target = 0]
  ELSE c

(* lines 449-454: the healer combat-state reset                            *)
combatReset(c, B) ==
  IF ~B.combatActive
  THEN [c EXCEPT !.buffedThisCombat = {}, !.buffQueue = <<>>,
                 !.combatStartFrameSeen = 0]
  ELSE c

(* lines 439-440: the think countdown                                      *)
countdown(c) ==
  IF c.thinkCd > 0 THEN [c EXCEPT !.thinkCd = @ - 1]
  ELSE [c EXCEPT !.thinkCd = ThinkInterval]

(* lines 456-465: the state a think evaluates                              *)
think1(r, B) ==
  CASE r.c.state = "FOLLOW" -> thinkFollow(r, B)
    [] r.c.state = "ACQUIRE" -> thinkAcquire(r, B)
    [] r.c.state = "ACT" -> thinkAct(r, B)
    [] r.c.state = "RECOVER" -> thinkRecover(r, B)
    [] r.c.state = "HOLD" -> thinkHold(r, B)
    [] OTHER -> [r EXCEPT !.c.state = "FOLLOW"]

(* an update that checks the leash before it resolves the character        *)
ControllerUpdateLeashFirst(c, bs, pos, ok) ==
  LET ch == characterForActorId(c.actorId, pos)
      B == bs[c.bb]
  IN IF ~c.cfg.enabled THEN Result(c, pos, ok)
     ELSE IF ch = Null THEN Result(leashCheck(c, ch), pos, ok)
     ELSE IF c.thinkCd > 0 THEN Result(countdown(c), pos, ok)
     ELSE Only({think1(r, B) :
                  r \in {[Result(c1, pos, ok) EXCEPT
                            !.thought = TRUE,
                            !.prior = c.state,
                            !.evaluated = c1.state,
                            !.seen = Snapshot(B)] :
                         c1 \in {[combatReset(leashCheck(countdown(c), ch), B)
                                   EXCEPT !.lastThink = B.frame]}}})

ControllerUpdate(c, bs, pos, ok) ==
  LET ch == characterForActorId(c.actorId, pos)
      B == bs[c.bb]
  IN IF ~c.cfg.enabled THEN Result(c, pos, ok)
     ELSE IF ch = Null THEN Result(c, pos, ok)
     ELSE IF c.thinkCd > 0 THEN Result(countdown(c), pos, ok)
     ELSE Only({think1(r, B) :
                  r \in {[Result(c1, pos, ok) EXCEPT
                            !.thought = TRUE,
                            !.prior = c.state,
                            !.evaluated = c1.state,
                            !.seen = Snapshot(B)] :
                         c1 \in {[combatReset(leashCheck(countdown(c), ch), B)
                                   EXCEPT !.lastThink = B.frame]}}})

----------------------------------------------------------------------------
(* Manager                                                                 *)

NewManager == [bb |-> Current, controllers |-> <<>>]

leaderId == IF Len(party) > 0 THEN party[1] ELSE 0

Has(cs, id) == \E i \in 1..Len(cs) : cs[i].actorId = id

Delete(cs, id) ==
  LET Other(c) == c.actorId # id
  IN SelectSeq(cs, Other)

(* the actors Manager.sync will create a controller for                    *)
Fresh(M) ==
  {id \in Actors : /\ \E i \in 1..Len(party) : party[i] = id
                   /\ id # leaderId
                   /\ db[id].enabled
                   /\ ~Has(M.controllers, id)}

(* a sync that replaces a controller it finds by a new one                 *)
ManagerSyncRecreate(M, jitter) ==
  LET RECURSIVE Loop(_, _)
      Loop(i, cs) ==
        IF i > Len(party) THEN cs
        ELSE LET id == party[i]
                 cfg == db[id]
             IN IF id = leaderId THEN Loop(i + 1, cs)
                ELSE IF ~cfg.enabled THEN Loop(i + 1, Delete(cs, id))
                ELSE IF ~Has(cs, id)
                THEN Loop(i + 1, Append(cs, NewController(id, cfg, M.bb, jitter[id])))
                ELSE Loop(i + 1, [k \in 1..Len(cs) |->
                                    IF cs[k].actorId = id
                                    THEN NewController(id, cfg, M.bb, 0) ELSE cs[k]])
      InParty(c) == \E i \in 1..Len(party) : party[i] = c.actorId
  IN [M EXCEPT !.controllers = SelectSeq(Loop(1, M.controllers), InParty)]

ManagerSync(M, jitter) ==
  LET RECURSIVE Loop(_, _)
      Loop(i, cs) ==
        IF i > Len(party) THEN cs
        ELSE LET id == party[i]
                 cfg == db[id]
             IN IF id = leaderId THEN Loop(i + 1, cs)
                ELSE IF ~cfg.enabled THEN Loop(i + 1, Delete(cs, id))
                ELSE IF ~Has(cs, id)
                THEN Loop(i + 1, Append(cs, NewController(id, cfg, M.bb, jitter[id])))
                ELSE Loop(i + 1, [k \in 1..Len(cs) |->
                                    IF cs[k].actorId = id
                                    THEN [cs[k] EXCEPT !.cfg = cfg] ELSE cs[k]])
      InParty(c) == \E i \in 1..Len(party) : party[i] = c.actorId
  IN [M EXCEPT !.controllers = SelectSeq(Loop(1, M.controllers), InParty)]

Outcome(r) == [f \in DOMAIN NoThink |-> r[f]]

(* a Manager.update that hands the controllers the Blackboard as it was    *)
(* before this frame's refresh                                             *)
ManagerUpdateStale(M, bs0, pos0, jitter, ok) ==
  LET RECURSIVE Run(_, _)
      Run(i, u) ==
        IF i > Len(u.mgr.controllers) THEN u
        ELSE Only({Run(i + 1, u2) :
                     u2 \in {[u EXCEPT !.mgr.controllers[i] = r.c,
                                       !.pos = r.pos,
                                       !.think[r.c.actorId] = Outcome(r)] :
                             r \in {ControllerUpdate(u.mgr.controllers[i], bs0,
                                                     u.pos, ok[u.mgr.controllers[i].actorId])}}})
  IN Only({Run(1, u) :
             u \in {[mgr |-> ManagerSync(M, jitter),
                     boards |-> [bs0 EXCEPT ![M.bb] = BlackboardUpdate(@)],
                     pos |-> pos0,
                     think |-> [a \in Actors |-> NoThink]]}})

(* Manager.update: the Blackboard, then sync, then every controller in the *)
(* Map's insertion order.                                                  *)
ManagerUpdate(M, bs0, pos0, jitter, ok) ==
  LET RECURSIVE Run(_, _)
      Run(i, u) ==
        IF i > Len(u.mgr.controllers) THEN u
        ELSE Only({Run(i + 1, u2) :
                     u2 \in {[u EXCEPT !.mgr.controllers[i] = r.c,
                                       !.pos = r.pos,
                                       !.think[r.c.actorId] = Outcome(r)] :
                             r \in {ControllerUpdate(u.mgr.controllers[i], u.boards,
                                                     u.pos, ok[u.mgr.controllers[i].actorId])}}})
  IN Only({Run(1, u) :
             u \in {[mgr |-> ManagerSync(M, jitter),
                     boards |-> [bs0 EXCEPT ![M.bb] = BlackboardUpdate(@)],
                     pos |-> pos0,
                     think |-> [a \in Actors |-> NoThink]]}})

(* A Blackboard no controller and no Manager refers to is garbage.         *)
Collect(bs, M) ==
  [b \in BoardIds |->
     IF b = M.bb \/ \E i \in 1..Len(M.controllers) : M.controllers[i].bb = b
     THEN bs[b] ELSE NewBlackboard]

(* a map setup that forgets to clear the controllers: they keep reading    *)
(* the Blackboard they were built with                                     *)
GameMapSetupKeepsControllers(M, bs, jitter) ==
  LET old == [i \in 1..Len(M.controllers) |-> [M.controllers[i] EXCEPT !.bb = Replaced]]
      M1 == ManagerSync([M EXCEPT !.bb = Current, !.controllers = old], jitter)
  IN [mgr |-> M1,
      boards |-> Collect([b \in BoardIds |-> IF b = Current THEN NewBlackboard
                                             ELSE bs[Current]], M1)]

(* Game_Map.prototype.setup: a new Blackboard, no controllers, then sync.  *)
(* The new Blackboard takes the name Current, the old one the name         *)
(* Replaced.                                                               *)
GameMapSetup(M, bs, jitter) ==
  LET M1 == ManagerSync([M EXCEPT !.bb = Current, !.controllers = <<>>], jitter)
  IN [mgr |-> M1,
      boards |-> Collect([b \in BoardIds |-> IF b = Current THEN NewBlackboard
                                             ELSE bs[Current]], M1)]

----------------------------------------------------------------------------
(* The state machine                                                       *)

Idle == [a \in Actors |-> NoThink]

Followers == {party[i] : i \in 2..Len(party)}
AiIds(M) == {M.controllers[i].actorId : i \in 1..Len(M.controllers)} \cup Fresh(M)

InitWorld(p, d) ==
  /\ party = p
  /\ db = d
  /\ charPos = [a \in Actors |-> PlayerPos]
  /\ hp = [a \in Actors |-> 100]
  /\ events = {}
  /\ evPos = [e \in Events |-> <<MaxX, 0>>]
  /\ evType = [e \in Events |-> "MELEE"]
  /\ result = Null
  /\ mgr = NewManager
  /\ boards = [b \in BoardIds |-> NewBlackboard]
  /\ think = Idle

(* Scene_Map.prototype.update                                              *)
Tick ==
  /\ boards[mgr.bb].frame < MaxFrame
  /\ \E jitter \in [Fresh(mgr) -> 0..(ThinkInterval - 1)], ok \in [AiIds(mgr) -> BOOLEAN] :
       \E u \in {ManagerUpdate(mgr, boards, charPos, jitter, ok)} :
          /\ mgr' = u.mgr
          /\ boards' = u.boards
          /\ charPos' = u.pos
          /\ think' = u.think
  /\ UNCHANGED <<party, db, hp, events, evPos, evType, result>>

(* a map transfer; the record keeps the state of each controller it        *)
(* discarded and the Blackboard that controller read                       *)
Discarded(a) == mgr.controllers[CHOOSE i \in 1..Len(mgr.controllers) :
                                  mgr.controllers[i].actorId = a]

MapSetup ==
  /\ \E jitter \in [Fresh(NewManager) -> 0..(ThinkInterval - 1)] :
       \E u \in {GameMapSetup(mgr, boards, jitter)} :
          /\ mgr' = u.mgr
          /\ boards' = u.boards
  /\ think' = [a \in Actors |->
                 IF Has(mgr.controllers, a)
                 THEN [NoThink EXCEPT !.prior = Discarded(a).state,
                                      !.seen = Snapshot(boards[Discarded(a).bb])]
                 ELSE NoThink]
  /\ UNCHANGED <<party, db, charPos, hp, events, evPos, evType, result>>

(* The world outside the plugin                                            *)
MoveChar(a, p) ==
  /\ a \in Followers
  /\ p # charPos[a]
  /\ charPos' = [charPos EXCEPT ![a] = p]
  /\ think' = Idle
  /\ UNCHANGED <<party, db, hp, events, evPos, evType, mgr, boards, result>>

MoveEnemy(e, p) ==
  /\ e \in events
  /\ p # evPos[e]
  /\ evPos' = [evPos EXCEPT ![e] = p]
  /\ think' = Idle
  /\ UNCHANGED <<party, db, charPos, hp, events, evType, mgr, boards, result>>

(* a new enemy event; ensureEnemyMetaCached tags it once                   *)
Spawn(e, t) ==
  /\ e \notin events
  /\ events' = events \cup {e}
  /\ evType' = [evType EXCEPT ![e] = enemyTypeFromEnemyDb(t)]
  /\ think' = Idle
  /\ UNCHANGED <<party, db, charPos, hp, evPos, mgr, boards, result>>

Despawn(e) ==
  /\ e \in events
  /\ events' = events \ {e}
  /\ think' = Idle
  /\ UNCHANGED <<party, db, charPos, hp, evPos, evType, mgr, boards, result>>

SetHp(a, h) ==
  /\ \E i \in 1..Len(party) : party[i] = a
  /\ h # hp[a]
  /\ hp' = [hp EXCEPT ![a] = h]
  /\ think' = Idle
  /\ UNCHANGED <<party, db, charPos, events, evPos, evType, mgr, boards, result>>

Leader == actorAiConfig(FALSE, "MELEE", "AGGRESSIVE")

(* One AI follower behind the leader, of any role and stance, and one      *)
(* melee enemy event that comes, moves and goes.                           *)
Profiles ==
  ((Roles \cup {"ARCHER"}) \X {"AGGRESSIVE"})
    \cup ({"MELEE", "HEALER"} \X {"HOLD"})

Init ==
  \E pf \in Profiles :
    InitWorld(<<1, 2>>, [a \in Actors |-> IF a = 2 THEN actorAiConfig(TRUE, pf[1], pf[2])
                                          ELSE Leader])

Next ==
  \/ Tick
  \/ MapSetup
  \/ \E a \in Actors, p \in Cells : MoveChar(a, p)
  \/ \E p \in Cells : MoveEnemy(1, p)
  \/ \E t \in {"MELEE", "RANGED"} : Spawn(1, t)
  \/ Despawn(1)

Spec == Init /\ [][Next]_vars

Ctl(a) == mgr.controllers[CHOOSE i \in 1..Len(mgr.controllers) :
                            mgr.controllers[i].actorId = a]
Board == boards[mgr.bb]
Moves(out) ==
  LET IsMove(x) == x.kind \in {"moveToward", "moveAway", "sidestep"}
  IN SelectSeq(out, IsMove)
Kinds(out) == [i \in 1..Len(out) |-> out[i].kind]

----------------------------------------------------------------------------
Range(f) == {f[i] : i \in DOMAIN f}

(* C1: every controller's think countdown satisfies                        *)
(* 0 <= countdown < thinkInterval in every reachable state.                *)
C1_CountdownBelowInterval ==
  \A i \in 1..Len(mgr.controllers) :
    /\ 0 <= mgr.controllers[i].thinkCd
    /\ mgr.controllers[i].thinkCd < ThinkInterval

(* C2: at a think at which the agent is farther from the leader than its   *)
(* leash radius, the state evaluated is RECOVER whatever the prior state:  *)
(* RECOVER's move toward the leader is the only intent and the target is   *)
(* cleared.                                                                *)
C2_LeashPreempts ==
  [][\A a \in Actors :
       (/\ think'[a].thought
        /\ distTiles(characterForActorId(a, charPos), PlayerPos) > db[a].leash)
       => /\ think'[a].evaluated = "RECOVER"
          /\ Kinds(think'[a].out) = <<"moveToward">>
          /\ think'[a].out[1].to = ToPlayer
          /\ Has(mgr'.controllers, a)
          /\ LET c == mgr'.controllers[CHOOSE i \in 1..Len(mgr'.controllers) :
                                         mgr'.controllers[i].actorId = a]
             IN c.target = 0 /\ c.state \in {"RECOVER", "FOLLOW", "HOLD"}]_vars

(* a think that interrupted ACT because the agent was beyond its leash     *)
C2_Witness ==
  \E a \in Actors :
    /\ think[a].thought
    /\ think[a].prior = "ACT"
    /\ think[a].evaluated = "RECOVER"
    /\ distTiles(charPos[a], PlayerPos) > db[a].leash

(* C8: combatStartFrame is written only by a refresh in which combatActive *)
(* goes from false to true, and then equals that refresh's frame counter;  *)
(* every other refresh, and every other step on the same Blackboard,       *)
(* leaves it unchanged.                                                    *)
C8_StartFrameOnRisingEdge ==
  [][boards'[Current].frame >= boards[Current].frame =>
       LET B == boards[mgr.bb]
           B2 == boards'[mgr.bb]
       IN IF B2.frame = B.frame + 1 /\ ~B.combatActive /\ B2.combatActive
          THEN B2.combatStartFrame = B2.frame
          ELSE B2.combatStartFrame = B.combatStartFrame]_vars

(* a second combat window that has kept its own start frame                *)
C8_Witness ==
  /\ Board.combatActive
  /\ Board.combatStartFrame > 2
  /\ Board.frame > Board.combatStartFrame + 1

(* C9: a RANGED agent acting on a MELEE-tagged target at most keepDistance *)
(* away issues exactly one move-away and one sidestep and no move-toward;  *)
(* it issues a move-toward only when that kiting condition fails and the   *)
(* target is beyond preferredRange.                                        *)
C9_RangedKites ==
  [][\A a \in Actors :
       (/\ think'[a].thought
        /\ think'[a].evaluated = "ACT"
        /\ db[a].role = "RANGED"
        /\ think'[a].tgt # 0)
       => LET t == think'[a].tgt
              d == distTiles(characterForActorId(a, charPos), evPos[t])
              kite == evType[t] = "MELEE" /\ d <= db[a].keepDistance
              mv == Kinds(Moves(think'[a].out))
          IN /\ kite => mv = <<"moveAway", "sidestep">>
             /\ "moveToward" \in Range(mv) => ~kite /\ d > db[a].preferredRange]_vars

(* a kiting think: the target is melee, beyond preferredRange and within   *)
(* keepDistance                                                            *)
C9_Witness ==
  \E a \in Actors :
    /\ think[a].thought
    /\ think[a].evaluated = "ACT"
    /\ db[a].role = "RANGED"
    /\ think[a].tgt # 0
    /\ evType[think[a].tgt] = "MELEE"
    /\ Kinds(think[a].out) = <<"moveAway", "sidestep", "tool">>
    /\ distTiles(charPos[a], evPos[think[a].tgt]) = db[a].keepDistance
    /\ db[a].keepDistance > db[a].preferredRange

----------------------------------------------------------------------------
(* Function-level specifications: the inputs are drawn by Init, one action *)
(* applies the function and keeps its value in result.                     *)

Defaults(p, d) ==
  /\ party = p
  /\ db = d
  /\ mgr = NewManager
  /\ boards = [b \in BoardIds |-> NewBlackboard]
  /\ think = Idle
  /\ result = Null

Apply(v) ==
  /\ result = Null
  /\ result' = v
  /\ UNCHANGED <<party, db, charPos, hp, events, evPos, evType, mgr, boards, think>>

(* the enemy events of a map: the absent ones keep the default tile and tag *)
EnemyInputs(evs, ep, ty) ==
  /\ \A e \in Events \ evs : ep[e] = <<MaxX, 0>> /\ ty[e] = "MELEE"
  /\ events = evs
  /\ evPos = ep
  /\ evType = ty

(* a board as a scan of the present events leaves it                       *)
ScannedBoard(active) ==
  [frame |-> 3, enemyScanCd |-> EnemyScanInterval, enemies |-> enemyCharacters,
   combatActive |-> active, combatStartFrame |-> IF active THEN 1 ELSE 0]

Acting(a, B) ==
  [Result([NewController(a, db[a], Current, 0) EXCEPT !.state = "ACT"], charPos, FALSE)
     EXCEPT !.thought = TRUE, !.prior = "ACT", !.evaluated = "ACT",
            !.seen = Snapshot(B)]

(* Target Selector *)
InitTarget ==
  \E evs \in SUBSET Events, ep \in [Events -> Cells],
     ty \in [Events -> {"MELEE", "RANGED"}], cp \in Cells,
     rl \in {"RANGED", "MELEE", "TANK"} :
    /\ EnemyInputs(evs, ep, ty)
    /\ charPos = [a \in Actors |-> IF a = 2 THEN cp ELSE PlayerPos]
    /\ hp = [a \in Actors |-> 100]
    /\ Defaults(<<1, 2>>, [a \in Actors |-> IF a = 2 THEN actorAiConfig(TRUE, rl, "AGGRESSIVE")
                                            ELSE Leader])

ApplyPickTarget ==
  Apply([val |-> pickTarget(characterForActorId(2, charPos), db[2].role,
                            enemyCharacters)])

SpecTarget == InitTarget /\ [][ApplyPickTarget]_vars

(* e is the first enemy, in scan order, at the least distance from ch      *)
(* among the scanned enemies passing In                                    *)
FirstNearest(e, ch, In(_)) ==
  /\ e \in events
  /\ In(e)
  /\ \A f \in events :
       In(f) => \/ distTiles(ch, evPos[e]) < distTiles(ch, evPos[f])
                \/ distTiles(ch, evPos[e]) = distTiles(ch, evPos[f]) /\ e <= f

(* C3: pickTarget returns none for an empty enemy list; for RANGED the     *)
(* first nearest RANGED-tagged enemy if there is one, else the first       *)
(* nearest enemy; for MELEE and TANK the first nearest enemy.              *)
C3_PickTarget ==
  result # Null =>
    LET ch == characterForActorId(2, charPos)
        AnyEnemy(e) == TRUE
        Tagged(e) == evType[e] = "RANGED"
    IN IF events = {} THEN result.val = 0
       ELSE IF db[2].role = "RANGED" /\ \E e \in events : Tagged(e)
       THEN FirstNearest(result.val, ch, Tagged)
       ELSE FirstNearest(result.val, ch, AnyEnemy)

(* a RANGED agent picks the first of two equally near ranged enemies       *)
(* although a melee enemy is nearer                                        *)
C3_Witness ==
  /\ result # Null
  /\ db[2].role = "RANGED"
  /\ result.val # 0
  /\ \E f \in events : /\ evType[f] = "RANGED"
                       /\ f > result.val
                       /\ evPos[f] = evPos[result.val]
  /\ \E m \in events : /\ evType[m] = "MELEE"
                       /\ distTiles(charPos[2], evPos[m])
                            < distTiles(charPos[2], evPos[result.val])

----------------------------------------------------------------------------
(* Healer: the heal target and the buff queue                              *)

Members == {party[i] : i \in 1..Len(party)}
PartyIndex(a) == CHOOSE i \in 1..Len(party) : party[i] = a

(* parties of up to four distinct actors with actor 2 as a follower        *)
Parties ==
  {p \in UNION {[1..k -> Actors] : k \in 2..4} :
     /\ \A i, j \in 1..Len(p) : p[i] = p[j] => i = j
     /\ \E i \in 2..Len(p) : p[i] = 2}

ApplyActHealer ==
  \E r \in {actHealer(Acting(2, ScannedBoard(TRUE)), ScannedBoard(TRUE))} :
    Apply([c |-> r.c, th |-> Outcome(r)])

InitHeal ==
  \E p \in Parties, cp \in Cells :
    \E h \in [{p[i] : i \in 1..Len(p)} -> HpLevels] :
      /\ EnemyInputs({}, [e \in Events |-> <<MaxX, 0>>], [e \in Events |-> "MELEE"])
      /\ charPos = [a \in Actors |-> IF a = 2 THEN cp ELSE PlayerPos]
      /\ hp = [a \in Actors |-> IF a \in DOMAIN h THEN h[a] ELSE 100]
      /\ Defaults(p, [a \in Actors |-> IF a = 2 THEN actorAiConfig(TRUE, "HEALER", "AGGRESSIVE")
                                       ELSE Leader])

SpecHeal == InitHeal /\ [][ApplyActHealer]_vars

(* C4: the ally a healer chooses to heal is alive, no living party member  *)
(* has a lower HP percentage, and no living member with the same           *)
(* percentage comes before it in party order.                              *)
C4_HealTargetLowestLiving ==
  (result # Null /\ result.th.decision = "HEAL") =>
    LET a == result.th.ally
    IN /\ a \in Members
       /\ hp[a] > 0
       /\ \A b \in Members :
            hp[b] > 0 => \/ hp[a] < hp[b]
                         \/ hp[a] = hp[b] /\ PartyIndex(a) <= PartyIndex(b)

(* a heal chosen past a dead ally, the first of two equally hurt allies    *)
C4_Witness ==
  /\ result # Null
  /\ result.th.decision = "HEAL"
  /\ \E b \in Members : hp[b] = 0 /\ PartyIndex(b) < PartyIndex(result.th.ally)
  /\ \E b \in Members : /\ hp[b] = hp[result.th.ally]
                        /\ PartyIndex(b) > PartyIndex(result.th.ally)

InitQueue ==
  \E p \in Parties :
    \E rl \in [{p[i] : i \in 1..Len(p)} \ {2} -> Roles \cup {"ARCHER"}] :
      /\ EnemyInputs({}, [e \in Events |-> <<MaxX, 0>>], [e \in Events |-> "MELEE"])
      /\ charPos = [a \in Actors |-> PlayerPos]
      /\ hp = [a \in Actors |-> 100]
      /\ Defaults(p, [a \in Actors |->
                        IF a = 2 THEN actorAiConfig(TRUE, "HEALER", "AGGRESSIVE")
                        ELSE IF a \in DOMAIN rl THEN actorAiConfig(a # p[1], rl[a], "AGGRESSIVE")
                        ELSE Leader])

SpecQueue == InitQueue /\ [][ApplyActHealer]_vars

(* the role an agent acts in: an unknown role string is MELEE              *)
ResolvedRole(a) == IF db[a].role \in Roles THEN db[a].role ELSE "MELEE"

(* the followers whose role is in rs, in party order                       *)
Group(rs) ==
  LET In(a) == a # party[1] /\ ResolvedRole(a) \in rs
  IN SelectSeq(party, In)

(* C5: a buff queue built for a combat window is the leader, then the      *)
(* MELEE/TANK agents, then the RANGED agents, then the HEALER agents, each *)
(* group in party order and without the leader.                            *)
C5_BuffQueueOrder ==
  (result # Null /\ result.th.built) =>
    result.c.buffQueue = <<party[1]>> \o Group({"MELEE", "TANK"})
                           \o Group({"RANGED"}) \o Group({"HEALER"})

----------------------------------------------------------------------------
(* Tank: the peel target                                                   *)

InitTank ==
  \E evs \in SUBSET {1, 2}, ep \in [Events -> Cells], cp \in [{2, 3, 4} -> Cells],
     rl \in [{3, 4} -> {"RANGED", "HEALER", "MELEE"}], lr \in {"MELEE", "RANGED"} :
    /\ EnemyInputs(evs, ep, [e \in Events |-> "MELEE"])
    /\ charPos = [a \in Actors |-> IF a \in DOMAIN cp THEN cp[a] ELSE PlayerPos]
    /\ hp = [a \in Actors |-> 100]
    /\ Defaults(<<1, 2, 3, 4>>,
                [a \in Actors |-> IF a = 1 THEN actorAiConfig(FALSE, lr, "AGGRESSIVE")
                                  ELSE IF a = 2 THEN actorAiConfig(TRUE, "TANK", "AGGRESSIVE")
                                  ELSE IF a \in DOMAIN rl
                                  THEN actorAiConfig(TRUE, rl[a], "AGGRESSIVE")
                                  ELSE Leader])

ApplyActTank ==
  \E r \in {actTank(Acting(2, ScannedBoard(events # {})), ScannedBoard(events # {}))} :
    Apply([c |-> r.c, th |-> Outcome(r)])

SpecTank == InitTank /\ [][ApplyActTank]_vars

(* a is the tank's nearest resolvable protected ally                       *)
NearestProtected(a) ==
  LET Protected == {b \in Members : /\ db[b].role \in {"RANGED", "HEALER"}
                                    /\ characterForActorId(b, charPos) # Null}
      D(b) == distTiles(charPos[2], charPos[b])
  IN /\ a \in Protected
     /\ \A b \in Protected :
          D(a) < D(b) \/ (D(a) = D(b) /\ PartyIndex(a) <= PartyIndex(b))

Threat(a) == {e \in events : distTiles(charPos[a], evPos[e]) <= db[2].protectRadius}

(* C7: when an enemy is within the protect radius of the tank's nearest    *)
(* protected ally the tank targets an enemy within that radius of that     *)
(* ally; otherwise it targets the nearest enemy.                           *)
C7_TankPeels ==
  result # Null =>
    LET AnyEnemy(e) == TRUE
    IN IF \E a \in Members : NearestProtected(a) /\ Threat(a) # {}
       THEN \A a \in Members : NearestProtected(a) => result.th.tgt \in Threat(a)
       ELSE IF events = {} THEN result.th.tgt = 0
       ELSE FirstNearest(result.th.tgt, charPos[2], AnyEnemy)

(* the tank targets an enemy next to its ally although another enemy,      *)
(* away from the ally, is closer to the tank                               *)
C7_Witness ==
  /\ result # Null
  /\ \E a \in Members : /\ NearestProtected(a)
                        /\ result.th.tgt \in Threat(a)
                        /\ \E e \in events \ Threat(a) :
                             distTiles(charPos[2], evPos[e])
                               < distTiles(charPos[2], evPos[result.th.tgt])

----------------------------------------------------------------------------
(* A party of three: the leader, a healer and a melee agent, one enemy     *)
(* event, and allies that are hurt and healed by the game.                 *)

InitParty ==
  InitWorld(<<1, 2, 3>>,
            [a \in Actors |-> IF a = 2 THEN actorAiConfig(TRUE, "HEALER", "AGGRESSIVE")
                              ELSE IF a = 3 THEN actorAiConfig(TRUE, "MELEE", "AGGRESSIVE")
                              ELSE Leader])

NextParty ==
  \/ Tick
  \/ \E a \in {1, 3}, h \in HpLevels : SetHp(a, h)
  \/ \E p \in Cells : MoveEnemy(1, p)
  \/ Spawn(1, "MELEE")
  \/ Despawn(1)

SpecParty == InitParty /\ [][NextParty]_vars

Critical == \E b \in Members : hp[b] > 0 /\ hp[b] <= HealerCriticalThreshold

BuffTools(out) ==
  LET IsBuff(x) == x.to = <<"tool", db[2].toolBuff>>
  IN SelectSeq(out, IsBuff)

(* the healer's think healed the lowest ally and buffed nobody             *)
HealsNotBuffs ==
  /\ think'[2].decision = "HEAL"
  /\ hp[think'[2].ally] > 0
  /\ \A b \in Members : hp[b] > 0 => hp[think'[2].ally] <= hp[b]
  /\ BuffTools(think'[2].out) = <<>>
  /\ Ctl(2)'.buffedThisCombat \subseteq Ctl(2).buffedThisCombat

(* C6: in any healer think with a living ally at or below the critical     *)
(* threshold the healer's action is a heal aimed at the lowest-HP ally,    *)
(* no buff ability is triggered and no ally is marked buffed.              *)
C6_CriticalHealPreemptsBuff ==
  [][(think'[2].thought /\ Critical) => HealsNotBuffs]_vars

(* C6 as it holds: the same for every healer think evaluated in ACT.       *)
C6_CriticalHealPreemptsBuffInAct ==
  [][(think'[2].thought /\ think'[2].evaluated = "ACT" /\ Critical)
       => HealsNotBuffs]_vars

(* a heal of a critical ally at a think at which combat was active, the    *)
(* buff window open and an ally of the queue not yet buffed                *)
C6_Witness ==
  /\ think[2].thought
  /\ think[2].evaluated = "ACT"
  /\ think[2].decision = "HEAL"
  /\ Critical
  /\ Board.combatActive
  /\ Board.frame - Board.combatStartFrame <= BuffWindowFrames
  /\ \E i \in 1..Len(Ctl(2).buffQueue) :
       Ctl(2).buffQueue[i] \notin Ctl(2).buffedThisCombat
  /\ Ctl(2).buffedThisCombat # {}

(* C10: a frame refreshes the Blackboard once, before the controllers:     *)
(* every controller that thinks in the frame reads the enemy list,         *)
(* combatActive and combatStartFrame that refresh left, and the            *)
(* controllers leave the Blackboard as the refresh left it.                *)
C10_OneRefreshBeforeControllers ==
  [][boards'[Current].frame # boards[Current].frame =>
       /\ boards' = [boards EXCEPT ![Current] = BlackboardUpdate(@)]
       /\ boards'[Current].frame = boards[Current].frame + 1
       /\ \A a \in Actors :
            think'[a].thought => think'[a].seen = Snapshot(boards'[Current])]_vars

(* two controllers thought in the frame whose refresh began a combat       *)
C10_Witness ==
  /\ think[2].thought
  /\ think[3].thought
  /\ think[2].seen = think[3].seen
  /\ Board.combatActive
  /\ Board.combatStartFrame = Board.frame

----------------------------------------------------------------------------
(* A roster that changes: members join, leave and change places, the first *)
(* member being the leader, and AI is switched on and off in the notes.    *)

Rosters == {<<1>>, <<1, 2>>, <<2, 1>>, <<1, 2, 3>>, <<1, 3, 4, 5, 2>>}

(* A follower character belongs to a party slot: the member now in a slot  *)
(* stands where the slot's follower stood.                                 *)
SetParty(p) ==
  /\ p # party
  /\ party' = p
  /\ charPos' = [a \in Actors |->
                   IF \E i \in 2..Len(p) : p[i] = a /\ i <= Len(party)
                   THEN charPos[party[CHOOSE i \in 2..Len(p) : p[i] = a]]
                   ELSE PlayerPos]
  /\ think' = Idle
  /\ UNCHANGED <<db, hp, events, evPos, evType, mgr, boards, result>>

SetEnabled(a, b) ==
  /\ db[a].enabled # b
  /\ db' = [db EXCEPT ![a].enabled = b]
  /\ think' = Idle
  /\ UNCHANGED <<party, charPos, hp, events, evPos, evType, mgr, boards, result>>

InitRoster ==
  InitWorld(<<1, 2>>, [a \in Actors |-> IF a \in {2, 3}
                                        THEN actorAiConfig(TRUE, "MELEE", "AGGRESSIVE")
                                        ELSE Leader])

NextRoster ==
  \/ Tick
  \/ MapSetup
  \/ \E p \in Rosters : SetParty(p)
  \/ \E a \in {2, 3}, b \in BOOLEAN : SetEnabled(a, b)
  \/ Spawn(1, "MELEE")
  \/ MoveEnemy(1, <<1, 0>>)

SpecRoster == InitRoster /\ [][NextRoster]_vars

Ids(M) == {M.controllers[i].actorId : i \in 1..Len(M.controllers)}
CtlOf(M, a) == M.controllers[CHOOSE i \in 1..Len(M.controllers) :
                               M.controllers[i].actorId = a]
Jitters(M) == [Fresh(M) -> 0..(ThinkInterval - 1)]

(* C11: a second sync right after a sync changes nothing, and a sync       *)
(* leaves the state, countdown, target and buff state of every controller  *)
(* it keeps as they were.                                                  *)
C11_SyncIdempotent ==
  \A j \in Jitters(mgr) :
    LET M1 == ManagerSync(mgr, j)
    IN /\ \A j2 \in Jitters(M1) : ManagerSync(M1, j2) = M1
       /\ \A a \in Ids(mgr) \cap Ids(M1) :
            CtlOf(M1, a) = [CtlOf(mgr, a) EXCEPT !.cfg = CtlOf(M1, a).cfg]

(* a sync that creates or deletes a controller and keeps one that has     *)
(* acted on a target                                                       *)
C11_Witness ==
  \E j \in Jitters(mgr) :
    LET M1 == ManagerSync(mgr, j)
    IN /\ Ids(M1) # Ids(mgr)
       /\ \E a \in Ids(mgr) \cap Ids(M1) :
            CtlOf(mgr, a).state # "FOLLOW" /\ CtlOf(mgr, a).target # 0

(* the members who are to have a controller: AI-enabled and not the leader *)
Expected == {party[i] : i \in 2..Len(party)} \cap {a \in Actors : db[a].enabled}

(* C12: after every sync the agents with a controller are exactly the      *)
(* AI-enabled members other than the leader, and a controller the sync     *)
(* created starts in FOLLOW.                                               *)
C12_ControllersAreEnabledFollowers ==
  [][(mgr' # mgr \/ boards' # boards) =>
       /\ Ids(mgr') = Expected'
       /\ \A a \in Ids(mgr') \ Ids(mgr) :
            IF think'[a].thought THEN think'[a].prior = "FOLLOW"
            ELSE CtlOf(mgr', a).state = "FOLLOW"]_vars

(* C13: a map setup leaves a new Blackboard and only new controllers, made *)
(* for the current roster, in FOLLOW with no target and no buff state,     *)
(* which read the new Blackboard.                                          *)
C13_ResetZone ==
  [][(boards'[Current].frame = 0 /\ (mgr' # mgr \/ boards' # boards \/ think' # think)) =>
       /\ mgr'.bb = Current
       /\ boards'[Current] = NewBlackboard
       /\ Ids(mgr') = Expected'
       /\ \A a \in Ids(mgr') :
            /\ CtlOf(mgr', a).bb = Current
            /\ CtlOf(mgr', a).state = "FOLLOW"
            /\ CtlOf(mgr', a).target = 0
            /\ CtlOf(mgr', a).buffQueue = <<>>
            /\ CtlOf(mgr', a).buffedThisCombat = {}
            /\ CtlOf(mgr', a).combatStartFrameSeen = 0]_vars

(* a map setup has just discarded a controller that was fighting and a     *)
(* Blackboard with combat active, and a controller exists                  *)
C13_Witness ==
  /\ boards[Current].frame = 0
  /\ \E a \in Ids(mgr) :
       /\ think[a].prior \in {"ACT", "ACQUIRE", "RECOVER"}
       /\ think[a].seen # Null
       /\ think[a].seen[2]
       /\ CtlOf(mgr, a).state = "FOLLOW"

(* a step that refreshed the Manager's Blackboard                          *)
Refreshed == boards'[mgr'.bb].frame = boards[mgr.bb].frame + 1
InAggro(e) == distTiles(PlayerPos, evPos[e]) <= DefaultAggro

Healers == {a \in Actors : db[a].role = "HEALER"}

C16_ThinkIntervalApart ==
  [][Refreshed =>
       \A a \in Ids(mgr) \cap Ids(mgr') :
         LET c0 == CtlOf(mgr, a)
             c1 == CtlOf(mgr', a)
         IN (c0.cfg.enabled /\ characterForActorId(a, charPos) # Null) =>
              /\ c0.thinkCd > 0 => (c1.thinkCd = c0.thinkCd - 1 /\ ~think'[a].thought)
              /\ think'[a].thought <=> c0.thinkCd = 0
              /\ think'[a].thought => c1.thinkCd = ThinkInterval
              /\ (think'[a].thought /\ c0.lastThink > 0) =>
                   boards'[mgr'.bb].frame - c0.lastThink = ThinkInterval]_vars

(* C17: on a Manager.update at which the character of a controller's actor *)
(* does not resolve, the controller issues no intent and is left as it     *)
(* was; at an update at which the character resolves and the countdown has *)
(* run out, the controller thinks.                                         *)
C17_UnresolvedDoesNothing ==
  [][Refreshed =>
       \A a \in Ids(mgr) \cap Ids(mgr') :
         LET c0 == CtlOf(mgr, a)
             c1 == CtlOf(mgr', a)
         IN /\ characterForActorId(a, charPos) = Null =>
                 /\ think'[a] = NoThink
                 /\ charPos'[a] = charPos[a]
                 /\ c1 = [c0 EXCEPT !.cfg = c1.cfg]
            /\ (characterForActorId(a, charPos) # Null /\ c1.cfg.enabled
                  /\ c0.thinkCd = 0) => think'[a].thought]_vars

(* a controller that has fought, whose character does not resolve, has let *)
(* more than a think interval pass without a think                         *)
C17_Witness ==
  \E a \in Ids(mgr) :
    /\ characterForActorId(a, charPos) = Null
    /\ Ctl(a).lastThink > 0
    /\ Board.frame > Ctl(a).lastThink + ThinkInterval + 1
    /\ Ctl(a).state \in {"ACT", "ACQUIRE"}
    /\ Ctl(a).thinkCd = 0
    /\ think[a] = NoThink

Tools(out) ==
  LET IsTool(x) == x.kind = "tool"
  IN SelectSeq(out, IsTool)

(* C18 as stated: a think evaluated in ACT issues at most one movement     *)
(* intent and at most one ability intent, whatever the role.               *)
C18_OneMoveOneAbility ==
  [][\A a \in Actors :
       (think'[a].thought /\ think'[a].evaluated = "ACT") =>
         /\ Len(Moves(think'[a].out)) <= 1
         /\ Len(Tools(think'[a].out)) <= 1]_vars

(* C18: a think evaluated in ACT issues at most one ability intent, and at *)
(* most one movement intent unless it is a RANGED agent kiting a MELEE     *)
(* target at most keepDistance away, which issues a move-away followed by  *)
(* a sidestep and no other movement.                                       *)
C18_OneMoveOneAbilityButKiting ==
  [][\A a \in Actors :
       (think'[a].thought /\ think'[a].evaluated = "ACT") =>
         /\ Len(Tools(think'[a].out)) <= 1
         /\ \/ Len(Moves(think'[a].out)) <= 1
            \/ /\ db[a].role = "RANGED"
               /\ think'[a].tgt # 0
               /\ evType[think'[a].tgt] = "MELEE"
               /\ distTiles(characterForActorId(a, charPos), evPos[think'[a].tgt])
                    <= db[a].keepDistance
               /\ Kinds(Moves(think'[a].out)) = <<"moveAway", "sidestep">>]_vars

(* an agent that is not RANGED moves once and uses one ability in an ACT   *)
(* think                                                                   *)
C18_Witness ==
  \E a \in Actors :
    /\ think[a].thought
    /\ think[a].evaluated = "ACT"
    /\ db[a].role # "RANGED"
    /\ Kinds(think[a].out) = <<"moveToward", "tool">>

(* C19 as stated: after every think evaluated in ACT the controller is in  *)
(* ACQUIRE.                                                                *)
C19_ActGoesToAcquire ==
  [][\A a \in Ids(mgr') :
       (think'[a].thought /\ think'[a].evaluated = "ACT") =>
         CtlOf(mgr', a).state = "ACQUIRE"]_vars

(* C19: after a think evaluated in ACT a RANGED, MELEE or TANK agent is in *)
(* ACQUIRE when it acted on a target and in FOLLOW, with no intent issued, *)
(* when it had none; a HEALER is in ACQUIRE after the reposition branch    *)
(* and stays in ACT after a heal, a buff or a self-defense.                *)
C19_ActGoesToAcquireOrStays ==
  [][\A a \in Ids(mgr') :
       (think'[a].thought /\ think'[a].evaluated = "ACT") =>
         IF db[a].role = "HEALER"
         THEN \/ /\ think'[a].decision \in {"HEAL", "BUFF", "DEFEND"}
                 /\ CtlOf(mgr', a).state = "ACT"
              \/ /\ think'[a].decision = "REPOSITION"
                 /\ Tools(think'[a].out) = <<>>
                 /\ CtlOf(mgr', a).state = "ACQUIRE"
         ELSE \/ /\ think'[a].tgt # 0
                 /\ CtlOf(mgr', a).state = "ACQUIRE"
              \/ /\ think'[a].tgt = 0
                 /\ think'[a].out = <<>>
                 /\ CtlOf(mgr', a).state = "FOLLOW"]_vars

(* an agent that acted on a target is in ACQUIRE                           *)
C19_Witness ==
  \E a \in Ids(mgr) :
    /\ think[a].thought
    /\ think[a].evaluated = "ACT"
    /\ db[a].role \in {"MELEE", "TANK", "RANGED"}
    /\ think[a].tgt # 0
    /\ Ctl(a).state = "ACQUIRE"
    /\ Ctl(a).target # 0

(* where an ally stands: the leader is the player character                *)
AllyPos(b) == IF Len(party) > 0 /\ b = party[1] THEN PlayerPos ELSE charPos[b]

(* C20: a healer that heals or buffs an ally in an ACT think triggers the  *)
(* ability only when the ally, the leader included, is within its          *)
(* preferred range; for an ally farther away it issues exactly one         *)
(* move-toward, no ability, and does not mark the ally buffed.             *)
C20_SupportWithinPreferredRange ==
  [][\A a \in Healers \cap Ids(mgr') :
       (/\ think'[a].thought
        /\ think'[a].evaluated = "ACT"
        /\ think'[a].decision \in {"HEAL", "BUFF"}) =>
         LET b == think'[a].ally
             far == distTiles(charPos[a], AllyPos(b)) > db[a].preferredRange
         IN /\ Tools(think'[a].out) # <<>> => ~far
            /\ far => /\ Kinds(think'[a].out) = <<"moveToward">>
                      /\ (a \in Ids(mgr) => b \notin CtlOf(mgr', a).buffedThisCombat
                                              \ CtlOf(mgr, a).buffedThisCombat)]_vars

FirstUnbuffed(queue, buffed) ==
  IF \E i \in 1..Len(queue) : queue[i] \notin buffed
  THEN queue[CHOOSE i \in 1..Len(queue) :
               /\ queue[i] \notin buffed
               /\ \A j \in 1..(i - 1) : queue[j] \in buffed]
  ELSE 0

(* C21: a healer triggers its buff ability or marks an ally buffed only in *)
(* a think evaluated in ACT at which combat is active, the frames since    *)
(* the combat start are within the buff window, no living ally is at or    *)
(* below the heal threshold, and the ally is the first entry of the buff   *)
(* queue that is not in the buffed-set.                                    *)
C21_BuffOnlyInWindow ==
  [][\A a \in Healers \cap Ids(mgr) \cap Ids(mgr') :
       LET c0 == CtlOf(mgr, a)
           c1 == CtlOf(mgr', a)
           B1 == boards'[mgr'.bb]
           before == IF think'[a].thought /\ (think'[a].built \/ ~B1.combatActive)
                     THEN {} ELSE c0.buffedThisCombat
           marked == c1.buffedThisCombat \ before
       IN (BuffTools(think'[a].out) # <<>> \/ marked # {}) =>
            /\ think'[a].thought
            /\ think'[a].evaluated = "ACT"
            /\ B1.combatActive
            /\ B1.frame - B1.combatStartFrame <= BuffWindowFrames
            /\ \A b \in Members : hp[b] > 0 => hp[b] > HealerHealThreshold
            /\ marked \subseteq {think'[a].ally}
            /\ think'[a].ally = FirstUnbuffed(c1.buffQueue, before)]_vars

(* a buff triggered for an ally of the queue that is not the leader       *)
C21_Witness ==
  \E a \in Healers \cap Ids(mgr) :
    /\ think[a].thought
    /\ think[a].decision = "BUFF"
    /\ BuffTools(think[a].out) # <<>>
    /\ think[a].ally \in Ctl(a).buffedThisCombat
    /\ think[a].ally # party[1]

QueueIndex(q, a) == CHOOSE i \in 1..Len(q) : q[i] = a

(* C22: in a buff queue that was built, a follower whose role is none of   *)
(* the four known ones stands where a MELEE follower stands: before every  *)
(* RANGED follower, and among the MELEE and TANK followers in party order. *)
C22_UnknownRoleQueuedAsMelee ==
  (result # Null /\ result.th.built) =>
    LET q == result.c.buffQueue
        Fol == Members \ {party[1]}
    IN \A u \in Fol : db[u].role \notin Roles =>
         /\ u \in Range(q)
         /\ \A b \in Fol : db[b].role = "RANGED" =>
              QueueIndex(q, u) < QueueIndex(q, b)
         /\ \A m \in Fol : db[m].role \in {"MELEE", "TANK"} =>
              (QueueIndex(q, u) < QueueIndex(q, m) <=> PartyIndex(u) < PartyIndex(m))

----------------------------------------------------------------------------
(* Ability dispatch: what userChar.act does when ChronoCompat.tryUseTool   *)
(* calls it. The character may have no act function, and each call shape   *)
(* act(toolId, commandType), act(toolId), act() may throw.                 *)

ActBehaviours ==
  {[has |-> FALSE, t3 |-> FALSE, t2 |-> FALSE, t1 |-> FALSE],
   [has |-> TRUE, t3 |-> FALSE, t2 |-> FALSE, t1 |-> FALSE],
   [has |-> TRUE, t3 |-> TRUE, t2 |-> FALSE, t1 |-> FALSE],
   [has |-> TRUE, t3 |-> TRUE, t2 |-> TRUE, t1 |-> TRUE]}

(* part_000 lines 297-328: up to three calls of act, every exception caught *)
tryUseToolMain(act) ==
  IF ~act.has THEN [calls |-> 0, ret |-> FALSE, raised |-> FALSE]
  ELSE IF ~act.t3 THEN [calls |-> 1, ret |-> TRUE, raised |-> FALSE]
  ELSE IF ~act.t2 THEN [calls |-> 2, ret |-> TRUE, raised |-> FALSE]
  ELSE IF ~act.t1 THEN [calls |-> 3, ret |-> TRUE, raised |-> FALSE]
  ELSE [calls |-> 3, ret |-> FALSE, raised |-> FALSE]

(* ROA_ChronoPartyAI.js lines 19-30: one call act(toolId), nothing caught  *)
tryUseToolBridge(act) ==
  IF ~act.has THEN [calls |-> 0, ret |-> FALSE, raised |-> FALSE]
  ELSE IF ~act.t2 THEN [calls |-> 1, ret |-> TRUE, raised |-> FALSE]
  ELSE [calls |-> 1, ret |-> FALSE, raised |-> TRUE]

(* The bridge file assigns its functions to the ChronoCompat object when   *)
(* it is loaded after the main file; loaded before it, it has no effect.   *)
dispatch(bridge, act) ==
  IF bridge THEN tryUseToolBridge(act) ELSE tryUseToolMain(act)

(* The controller an exception out of tryUseTool leaves behind: every role *)
(* behavior calls tryUseTool before it assigns the state and before        *)
(* doHealerBuff marks the ally.                                            *)
Thrown(r) ==
  [r.c EXCEPT !.state = r.evaluated,
              !.buffedThisCombat = @ \ (IF r.decision = "BUFF" THEN {r.ally} ELSE {})]

NoDispatch == [raised |-> FALSE, updated |-> {}, attempts |-> [a \in Actors |-> 0]]

(* Manager.update with the dispatch outcomes: an exception leaves the loop *)
(* over the controllers.                                                   *)
ManagerUpdateDispatch(M, bs0, pos0, jitter, ok, bridge, act) ==
  LET RECURSIVE Run(_, _)
      Run(i, u) ==
        IF i > Len(u.mgr.controllers) \/ u.d.raised THEN u
        ELSE Only({Run(i + 1, u2) :
                     u2 \in UNION {{[u EXCEPT
                                !.mgr.controllers[i] = IF o.raised THEN Thrown(r) ELSE r.c,
                                !.pos = r.pos,
                                !.think[r.c.actorId] = Outcome(r),
                                !.d.raised = o.raised,
                                !.d.attempts[r.c.actorId] = o.calls,
                                !.d.updated = IF o.raised THEN @ ELSE @ \cup {r.c.actorId}] :
                             o \in {IF \E k \in 1..Len(r.out) : r.out[k].kind = "tool"
                                    THEN dispatch(bridge, act[r.c.actorId])
                                    ELSE [calls |-> 0, ret |-> TRUE, raised |-> FALSE]}} :
                             r \in {ControllerUpdate(u.mgr.controllers[i], u.boards,
                                                     u.pos, ok[u.mgr.controllers[i].actorId])}}})
  IN Only({Run(1, u) :
             u \in {[mgr |-> ManagerSync(M, jitter),
                     boards |-> [bs0 EXCEPT ![M.bb] = BlackboardUpdate(@)],
                     pos |-> pos0,
                     think |-> [a \in Actors |-> NoThink],
                     d |-> NoDispatch]}})

(* Scene_Map.prototype.update; an exception that leaves it stops the game  *)
TickDispatch ==
  /\ boards[mgr.bb].frame < MaxFrame
  /\ result # Null => ~result.raised
  /\ \E jitter \in [Fresh(mgr) -> 0..(ThinkInterval - 1)], ok \in [AiIds(mgr) -> {TRUE}],
        bridge \in BOOLEAN, act \in [AiIds(mgr) -> ActBehaviours] :
       /\ result # Null => bridge = result.bridge
       /\ \E u \in {ManagerUpdateDispatch(mgr, boards, charPos, jitter, ok, bridge, act)} :
            /\ mgr' = u.mgr
            /\ boards' = u.boards
            /\ charPos' = u.pos
            /\ think' = u.think
            /\ result' = [bridge |-> bridge] @@ u.d
  /\ UNCHANGED <<party, db, hp, events, evPos, evType>>

NextDispatch ==
  \/ TickDispatch
  \/ \E p \in {<<1, 0>>, <<3, 0>>} : MoveEnemy(1, p)
  \/ Spawn(1, "MELEE")
  \/ Despawn(1)

SpecDispatch == InitParty /\ [][NextDispatch]_vars

(* C23: a dispatch that fails leaves neither the think nor Manager.update: *)
(* every controller is updated in that frame, and an ability intent is     *)
(* dispatched with one call, not retried in the same think.                *)
C23_DispatchFailureContained ==
  [][Refreshed =>
       /\ ~result'.raised
       /\ result'.updated = Ids(mgr')
       /\ \A a \in Ids(mgr') : result'.attempts[a] <= Len(Tools(think'[a].out))]_vars

(* C24: a RANGED or MELEE agent that issues an intent against its target   *)
(* in an ACT think acts on an enemy that is in the Blackboard's enemy list *)
(* at that think.                                                          *)
C24_TargetInEnemyList ==
  [][\A a \in Ids(mgr') :
       (/\ think'[a].thought
        /\ think'[a].evaluated = "ACT"
        /\ db[a].role \notin {"HEALER", "TANK"}
        /\ think'[a].tgt # 0
        /\ think'[a].out # <<>>)
       => think'[a].tgt \in Range(boards'[mgr'.bb].enemies)]_vars

(* C27: a controller whose stance is HOLD issues no movement intent in a    *)
(* think evaluated in HOLD, and a think that takes a MELEE controller of   *)
(* that stance from HOLD or ACQUIRE into ACT leaves it with a target that  *)
(* is within 3 tiles of the agent at that think.                           *)
C27_HoldDefendsWithinRadius ==
  [][\A a \in Ids(mgr') :
       (db[a].stance = "HOLD" /\ think'[a].thought) =>
         /\ think'[a].evaluated = "HOLD" => Moves(think'[a].out) = <<>>
         /\ (/\ db[a].role = "MELEE"
             /\ think'[a].evaluated \in {"HOLD", "ACQUIRE"}
             /\ CtlOf(mgr', a).state = "ACT")
            => /\ CtlOf(mgr', a).target # 0
               /\ distTiles(charPos'[a], evPos[CtlOf(mgr', a).target]) <= 3]_vars

----------------------------------------------------------------------------
(* Frames without end. The frame counter is read only at the rising edge   *)
(* of combat and by the healer's buff window, which is consulted only with *)
(* combat active: past MaxFrame the counter stays at MaxFrame for as long  *)
(* as the refresh finds no combat, and every other field is computed by    *)
(* Manager.update as it is.                                                *)
TickCalm ==
  /\ boards[mgr.bb].frame = MaxFrame
  /\ \E jitter \in [Fresh(mgr) -> 0..(ThinkInterval - 1)], ok \in [AiIds(mgr) -> BOOLEAN] :
       \E u \in {ManagerUpdate(mgr, [boards EXCEPT ![mgr.bb].frame = MaxFrame - 1],
                               charPos, jitter, ok)} :
          /\ ~u.boards[u.mgr.bb].combatActive
          /\ mgr' = u.mgr
          /\ boards' = u.boards
          /\ charPos' = u.pos
          /\ think' = u.think
  /\ UNCHANGED <<party, db, hp, events, evPos, evType, result>>

NextCalm ==
  \/ Tick
  \/ TickCalm
  \/ \E p \in {<<1, 0>>, <<MaxX, 0>>} : MoveEnemy(1, p)
  \/ Spawn(1, "MELEE")
  \/ Despawn(1)

(* Scene_Map.prototype.update runs at every frame of the map scene         *)
SpecCalm == Init /\ [][NextCalm]_vars /\ WF_vars(Tick \/ TickCalm)

Calm ==
  /\ ~Board.combatActive
  /\ characterForActorId(2, charPos) # Null
  /\ distTiles(charPos[2], PlayerPos) <= db[2].leash

AtRest == 2 \in Ids(mgr) /\ Ctl(2).state = RestingState(Ctl(2))

(* C25: if from some frame on combat is not active and the agent's         *)
(* character resolves and is within its leash, then from some frame on     *)
(* the controller is in FOLLOW (HOLD for stance HOLD).                     *)
C25_CalmReturnsToFollow == <>[]Calm => <>[]AtRest

(* C26: in a combat window a healer triggers the buff ability for an ally  *)
(* that is not yet in the buffed-set and whose predecessors in the buff    *)
(* queue all are, the ally is in the buffed-set afterwards, and the        *)
(* buffed-set holds only ids of the buff queue.                            *)
C26_BuffOncePerAllyInOrder ==
  [][\A a \in Healers \cap Ids(mgr) \cap Ids(mgr') :
       LET c0 == CtlOf(mgr, a)
           c1 == CtlOf(mgr', a)
           q == c1.buffQueue
           before == IF think'[a].thought
                        /\ (think'[a].built \/ ~boards'[mgr'.bb].combatActive)
                     THEN {} ELSE c0.buffedThisCombat
           b == think'[a].ally
       IN /\ c1.buffedThisCombat \subseteq Range(q)
          /\ BuffTools(think'[a].out) # <<>> =>
               /\ Len(BuffTools(think'[a].out)) = 1
               /\ b \notin before
               /\ b \in Range(q)
               /\ \A j \in 1..(QueueIndex(q, b) - 1) : q[j] \in before
               /\ c1.buffedThisCombat = before \cup {b}
          /\ BuffTools(think'[a].out) = <<>> => c1.buffedThisCombat = before]_vars

(* the second buff of a window                                             *)
C26_Witness ==
  \E a \in Healers \cap Ids(mgr) :
    /\ think[a].decision = "BUFF"
    /\ ~think[a].built
    /\ BuffTools(think[a].out) # <<>>
    /\ Cardinality(Ctl(a).buffedThisCombat) = 2
    /\ Ctl(a).buffQueue[2] = think[a].ally

====
